---------------------------- MODULE Spec2Model ----------------------------
(***************************************************************************)
(* A state-machine model of src/main.js, the page controller of the        *)
(* Retail Q&A page: event wiring, the form-submit handler, the             *)
(* example-question buttons, textarea auto-resize, the alert helper and    *)
(* its timers, copyAnswer and askQuestionAPI.                              *)
(*                                                                         *)
(* The browser is the environment: it has an event loop that runs one      *)
(* handler to completion at a time (one action of the model per handler),  *)
(* a clock, a timer table, and a DOM in which each of the elements the     *)
(* script looks up may or may not exist.  An exception that leaves a       *)
(* handler reaches the window 'error' listener within the same step.       *)
(*                                                                         *)
(* Not modelled: clearAnswer, hideLoadingState, debounce, formatAnswer,    *)
(* initializeTooltips (the page has no tooltip elements) and the           *)
(* 'unhandledrejection' listener.                                          *)
(***************************************************************************)
EXTENDS Integers, Sequences, FiniteSets

(***************************************************************************)
(* Bounds of the model.                                                    *)
(***************************************************************************)
MaxLen == 2          \* longest text typed or carried by data-question
MaxAlerts == 3       \* showAlert calls in one run
MaxClicks == 2       \* example-question clicks in one run
MaxRequests == 1     \* requests askQuestionAPI sends in one run
LineHeight == 90     \* rendered height of one line of the textarea (CSS)

(***************************************************************************)
(* Constants of the program.                                               *)
(***************************************************************************)
FocusDelay == 500
AlertDelay == 5000
MaxHeight == 200
Auto == -1           \* style.height 'auto', among heights in pixels

Min(a, b) == IF a < b THEN a ELSE b
Max(a, b) == IF a > b THEN a ELSE b

(***************************************************************************)
(* Text.  A string is a sequence of characters; "\n" and " " are the       *)
(* white space String.prototype.trim strips.                               *)
(***************************************************************************)
Chars == {"a", " ", "\n"}
Whitespace == {" ", "\n"}
Strings == UNION {[1..k -> Chars] : k \in 0..MaxLen}

RECURSIVE TrimStart(_)
TrimStart(s) ==
    IF s = <<>> THEN s
    ELSE IF Head(s) \in Whitespace THEN TrimStart(Tail(s)) ELSE s

RECURSIVE TrimEnd(_)
TrimEnd(s) ==
    IF s = <<>> THEN s
    ELSE IF s[Len(s)] \in Whitespace THEN TrimEnd(SubSeq(s, 1, Len(s) - 1)) ELSE s

\* String.prototype.trim
Trim(s) == TrimEnd(TrimStart(s))

(***************************************************************************)
(* The DOM contract: the elements the script looks up.                     *)
(***************************************************************************)
Elements == {"questionForm", "question", "submitBtn", "loadingSpinner",
             "exampleButtons", "container", "answer"}

MsgEmpty == "Please enter a question before submitting."
MsgCopied == "Answer copied to clipboard!"
MsgCopyFailed == "Failed to copy answer. Please try selecting and copying manually."
MsgUnexpected == "An unexpected error occurred. Please refresh the page and try again."
LabelAsk == "Ask AI Assistant"
LabelProcessing == "Processing..."

VARIABLES
    present,        \* [Elements -> BOOLEAN]: which elements the document has
    loaded,         \* DOMContentLoaded has run initializeApp
    listeners,      \* the listeners setupEventListeners attached
    value,          \* textarea#question .value
    styleHeight,    \* textarea#question .style.height: Auto or pixels
    focused,        \* textarea#question has input focus
    inView,         \* textarea#question has been scrolled into view
    btnDisabled,    \* #submitBtn .disabled
    btnLabel,       \* #submitBtn label
    spinnerDisplay, \* #loadingSpinner .style.display
    alerts,         \* the alertDivs created so far, by id (1..Len)
    container,      \* the banners attached to .container, first child first
    timers,         \* pending setTimeout callbacks
    now,            \* the clock, in ms
    clicks,         \* example-question clicks so far
    errors,         \* uncaught exceptions reported to window.onerror so far
    nav,            \* default form submission: "none", "pending", "done"
    bodyInputs,     \* transient textareas attached to document.body
    clipboard,      \* what the clipboard holds
    api,            \* the askQuestionAPI call in progress
    requests,       \* the requests fetch has sent
    last            \* the handler that ran last, with its inputs and outcome

domVars == <<present, loaded, listeners, value, styleHeight, focused, inView,
             btnDisabled, btnLabel, spinnerDisplay>>
alertVars == <<alerts, container, timers>>
copyVars == <<bodyInputs, clipboard>>
apiVars == <<api, requests>>
vars == <<domVars, alertVars, copyVars, apiVars, now, clicks, errors, nav, last>>

(***************************************************************************)
(* Layout.  scrollHeight is the larger of the box the style gives the      *)
(* textarea and the height its content needs; with height "auto" the box   *)
(* is one line high.  Every "\n" starts a line.                            *)
(***************************************************************************)
RECURSIVE Newlines(_)
Newlines(s) ==
    IF s = <<>> THEN 0
    ELSE (IF Head(s) = "\n" THEN 1 ELSE 0) + Newlines(Tail(s))

ContentHeight(s) == LineHeight * (1 + Newlines(s))
ClientHeight(h) == IF h = Auto THEN LineHeight ELSE h
ScrollHeight(h, s) == Max(ClientHeight(h), ContentHeight(s))

\* a resize without the cap of 200
AutoResizeNoCap(h, s) == ScrollHeight(Auto, s)
\* autoResizeTextarea: the new style.height of a textarea whose style.height
\* is h and whose content is s
AutoResizeTextarea(h, s) ==
    LET reset == Auto
    IN  Min(ScrollHeight(reset, s), MaxHeight)

(***************************************************************************)
(* Children of .container (the banners among them).                        *)
(***************************************************************************)
\* container.insertBefore(node, container.firstChild)
InsertBefore(children, node) == <<node>> \o children

\* node.parentNode is the container
IsAttached(children, node) == \E i \in 1..Len(children) : children[i] = node

\* node.remove()
RemoveNode(children, node) == SelectSeq(children, LAMBDA c : c # node)

\* a callback that removes whatever banner comes first
AlertTimeoutRemovesFirst(children, node) ==
    IF children # <<>> THEN Tail(children) ELSE children

\* the callback of the 5000 ms timer of showAlert
AlertTimeout(children, node) ==
    IF IsAttached(children, node) THEN RemoveNode(children, node) ELSE children

AlertTimer(id) == [kind |-> "alert", id |-> id, at |-> now, due |-> now + AlertDelay]
\* a focus timer with no delay
FocusTimerNoDelay(id) == [kind |-> "focus", id |-> id, at |-> now, due |-> now]
FocusTimer(id) == [kind |-> "focus", id |-> id, at |-> now, due |-> now + FocusDelay]

\* a showAlert that never dismisses its banner
ShowAlertNoTimer(message, type, baseTimers) ==
    /\ Len(alerts) < MaxAlerts
    /\ alerts' = Append(alerts, [type |-> type, message |-> message])
    /\ container' = IF present["container"]
                    THEN InsertBefore(container, Len(alerts) + 1) ELSE container
    /\ timers' = baseTimers

\* showAlert(message, type), called by a handler that leaves the timer table
\* as baseTimers
ShowAlert(message, type, baseTimers) ==
    LET id == Len(alerts) + 1
    IN  /\ Len(alerts) < MaxAlerts
        /\ alerts' = Append(alerts, [type |-> type, message |-> message])
        /\ IF present["container"]
           THEN /\ container' = InsertBefore(container, id)
                /\ timers' = baseTimers \cup {AlertTimer(id)}
           ELSE /\ container' = container
                /\ timers' = baseTimers

\* an exception no handler catches: the window 'error' listener
ReportError(baseTimers) ==
    /\ errors' = errors + 1
    /\ ShowAlert(MsgUnexpected, "danger", baseTimers)

Event(op, arg, threw, prevented) ==
    [op |-> op, arg |-> arg, threw |-> threw, prevented |-> prevented]

Live == loaded /\ nav # "done"

(***************************************************************************)
(* Event wiring.                                                           *)
(***************************************************************************)
\* setupEventListeners: the listeners it attaches
SetupEventListeners ==
    (IF present["questionForm"] THEN {"submit"} ELSE {})
    \cup (IF present["exampleButtons"] THEN {"click"} ELSE {})
    \cup (IF present["question"] THEN {"input"} ELSE {})

\* DOMContentLoaded: initializeApp
DOMContentLoaded ==
    /\ ~loaded
    /\ loaded' = TRUE
    /\ listeners' = SetupEventListeners
    /\ last' = Event("load", "", FALSE, FALSE)
    /\ UNCHANGED <<present, value, styleHeight, focused, inView, btnDisabled,
                   btnLabel, spinnerDisplay, alertVars, copyVars, apiVars,
                   now, clicks, errors, nav>>

(***************************************************************************)
(* The question textarea.                                                  *)
(***************************************************************************)
\* the user edits the textarea to hold v: the 'input' event
TypeInput(v) ==
    /\ nav # "done"
    /\ present["question"]
    /\ value' = v
    /\ styleHeight' = IF "input" \in listeners
                      THEN AutoResizeTextarea(styleHeight, v) ELSE styleHeight
    /\ last' = Event("input", v, FALSE, FALSE)
    /\ UNCHANGED <<present, loaded, listeners, focused, inView, btnDisabled,
                   btnLabel, spinnerDisplay, alertVars, copyVars, apiVars,
                   now, clicks, errors, nav>>

\* another script, or a re-render, takes the textarea out of the document
RemoveQuestion ==
    /\ Live
    /\ present["question"]
    /\ present' = [present EXCEPT !["question"] = FALSE]
    /\ focused' = FALSE
    /\ last' = Event("removeQuestion", "", FALSE, FALSE)
    /\ UNCHANGED <<loaded, listeners, value, styleHeight, inView, btnDisabled,
                   btnLabel, spinnerDisplay, alertVars, copyVars, apiVars,
                   now, clicks, errors, nav>>

(***************************************************************************)
(* Form submission.                                                        *)
(***************************************************************************)
\* a blank test that forgets to trim
IsBlankUntrimmed(s) == s = <<>>

\* !question, for question = value.trim()
IsBlank(s) == Trim(s) = <<>>

\* a loading state that leaves the button enabled
ShowLoadingStateNoDisable ==
    /\ btnDisabled' = btnDisabled
    /\ btnLabel' = IF present["submitBtn"] THEN LabelProcessing ELSE btnLabel
    /\ spinnerDisplay' = IF present["loadingSpinner"] THEN "block" ELSE spinnerDisplay

\* showLoadingState
ShowLoadingState ==
    /\ btnDisabled' = IF present["submitBtn"] THEN TRUE ELSE btnDisabled
    /\ btnLabel' = IF present["submitBtn"] THEN LabelProcessing ELSE btnLabel
    /\ spinnerDisplay' = IF present["loadingSpinner"] THEN "block" ELSE spinnerDisplay

\* the form's 'submit' event: handleFormSubmit, then the browser's default
\* action unless the handler cancelled it
SubmitForm ==
    /\ Live
    /\ nav = "none"
    /\ "submit" \in listeners
    /\ IF ~present["question"]
       THEN \* line 53 reads .value of null: TypeError, nothing cancelled
            /\ ReportError(timers)
            /\ nav' = "pending"
            /\ last' = Event("submit", "", TRUE, FALSE)
            /\ UNCHANGED <<btnDisabled, btnLabel, spinnerDisplay>>
       ELSE IF IsBlank(value)
       THEN /\ ShowAlert(MsgEmpty, "warning", timers)
            /\ nav' = "none"
            /\ last' = Event("submit", value, FALSE, TRUE)
            /\ UNCHANGED <<btnDisabled, btnLabel, spinnerDisplay, errors>>
       ELSE /\ ShowLoadingState
            /\ nav' = "pending"
            /\ last' = Event("submit", value, FALSE, FALSE)
            /\ UNCHANGED <<alertVars, errors>>
    /\ UNCHANGED <<present, loaded, listeners, value, styleHeight, focused,
                   inView, copyVars, apiVars, now, clicks>>

\* the browser leaves the page: the document and its timers are gone
Navigate ==
    /\ nav = "pending"
    /\ nav' = "done"
    /\ container' = <<>>
    /\ timers' = {}
    /\ focused' = FALSE
    /\ last' = Event("navigate", "", FALSE, FALSE)
    /\ UNCHANGED <<present, loaded, listeners, value, styleHeight, inView,
                   btnDisabled, btnLabel, spinnerDisplay, alerts, copyVars,
                   apiVars, now, clicks, errors>>

(***************************************************************************)
(* Example-question buttons.                                               *)
(***************************************************************************)
\* a click on an example-question button whose data-question is q
ClickExample(q) ==
    /\ Live
    /\ "click" \in listeners
    /\ clicks < MaxClicks
    /\ clicks' = clicks + 1
    /\ IF ~present["question"]
       THEN \* line 30 assigns .value of null: TypeError
            /\ ReportError(timers)
            /\ last' = Event("click", q, TRUE, FALSE)
            /\ UNCHANGED <<value, inView>>
       ELSE /\ value' = q
            /\ inView' = TRUE
            /\ timers' = timers \cup {FocusTimer(clicks + 1)}
            /\ last' = Event("click", q, FALSE, FALSE)
            /\ UNCHANGED <<alerts, container, errors>>
    /\ UNCHANGED <<present, loaded, listeners, styleHeight, focused,
                   btnDisabled, btnLabel, spinnerDisplay, copyVars, apiVars,
                   now, nav>>

\* the callback of the 500 ms timer of a click
FocusTimerFire(t) ==
    /\ Live
    /\ t \in timers
    /\ t.kind = "focus"
    /\ now >= t.due
    /\ IF ~present["question"]
       THEN \* line 40 calls .focus of null: TypeError
            /\ ReportError(timers \ {t})
            /\ last' = Event("focusTimer", t, TRUE, FALSE)
            /\ UNCHANGED focused
       ELSE /\ focused' = TRUE
            /\ timers' = timers \ {t}
            /\ last' = Event("focusTimer", t, FALSE, FALSE)
            /\ UNCHANGED <<alerts, container, errors>>
    /\ UNCHANGED <<present, loaded, listeners, value, styleHeight, inView,
                   btnDisabled, btnLabel, spinnerDisplay, copyVars, apiVars,
                   now, clicks, nav>>

(***************************************************************************)
(* Alerts, their timers, and the clock.                                    *)
(***************************************************************************)
\* window.retailQA.showAlert(message, type), from inline markup or a console
ShowAlertCall(message, type) ==
    /\ Live
    /\ ShowAlert(message, type, timers)
    /\ last' = Event("showAlert", type, FALSE, FALSE)
    /\ UNCHANGED <<domVars, copyVars, apiVars, now, clicks, errors, nav>>

\* the callback of the 5000 ms timer of banner t.id
AlertTimerFire(t) ==
    /\ Live
    /\ t \in timers
    /\ t.kind = "alert"
    /\ now >= t.due
    /\ container' = AlertTimeout(container, t.id)
    /\ timers' = timers \ {t}
    /\ last' = Event("alertTimer", t, FALSE, FALSE)
    /\ UNCHANGED <<domVars, alerts, copyVars, apiVars, now, clicks, errors, nav>>

\* the user closes banner id with its btn-close button (data-bs-dismiss)
DismissAlert(id) ==
    /\ Live
    /\ IsAttached(container, id)
    /\ container' = RemoveNode(container, id)
    /\ last' = Event("dismiss", id, FALSE, FALSE)
    /\ UNCHANGED <<domVars, alerts, timers, copyVars, apiVars, now, clicks,
                   errors, nav>>

\* time passes, up to the next deadline of the timer table
Tick ==
    /\ nav # "done"
    /\ \E t \in timers : t.due > now
    /\ now' = CHOOSE d \in {t.due : t \in timers} :
                 d > now /\ \A t \in timers : t.due > now => d <= t.due
    /\ last' = Event("tick", "", FALSE, FALSE)
    /\ UNCHANGED <<domVars, alertVars, copyVars, apiVars, clicks, errors, nav>>

(***************************************************************************)
(* copyAnswer.                                                             *)
(***************************************************************************)
AnswerText == <<"a", "\n", "a">>

\* document.execCommand('copy') returns true, returns false (the command is
\* unsupported or not allowed), or throws
CopyOutcomes == {"copied", "refused", "throws"}

\* window.retailQA.copyAnswer(), with the outcome of the copy command
CopyAnswer(outcome) ==
    /\ nav # "done"
    /\ IF present["answer"]
       THEN LET temp == Cardinality(bodyInputs) + 1
                appended == bodyInputs \cup {temp}
            IN  /\ clipboard' = IF outcome = "copied" THEN AnswerText ELSE clipboard
                /\ IF outcome = "throws"
                   THEN ShowAlert(MsgCopyFailed, "warning", timers)
                   ELSE ShowAlert(MsgCopied, "success", timers)
                /\ bodyInputs' = appended \ {temp}
                /\ last' = Event("copy", outcome, FALSE, FALSE)
       ELSE /\ last' = Event("copy", outcome, FALSE, FALSE)
            /\ UNCHANGED <<alertVars, copyVars>>
    /\ UNCHANGED <<domVars, apiVars, now, clicks, errors, nav>>

(***************************************************************************)
(* askQuestionAPI.                                                         *)
(***************************************************************************)
\* JSON string escaping of the characters of Chars
RECURSIVE Escape(_)
Escape(s) ==
    IF s = <<>> THEN <<>>
    ELSE (IF Head(s) = "\n" THEN <<"\\", "n">> ELSE <<Head(s)>>) \o Escape(Tail(s))

RECURSIVE Unescape(_)
Unescape(s) ==
    IF s = <<>> THEN <<>>
    ELSE IF Head(s) = "\\" /\ Len(s) >= 2 /\ s[2] = "n"
         THEN <<"\n">> \o Unescape(Tail(Tail(s)))
         ELSE <<Head(s)>> \o Unescape(Tail(s))

BodyOpen == <<"{", "\"", "question", "\"", ":", "\"">>
BodyClose == <<"\"", "}">>

\* JSON.stringify({ question: q })
JSONStringify(q) == BodyOpen \o Escape(q) \o BodyClose

\* what a JSON parser reads back from a request body: the question, or "invalid"
ParseRequestBody(b) ==
    LET n == Len(b)
        lo == Len(BodyOpen)
        hi == Len(BodyClose)
    IN  IF /\ n >= lo + hi
           /\ SubSeq(b, 1, lo) = BodyOpen
           /\ SubSeq(b, n - hi + 1, n) = BodyClose
           /\ \A i \in lo + 1 .. n - hi : b[i] # "\n"
        THEN Unescape(SubSeq(b, lo + 1, n - hi))
        ELSE <<"invalid">>

Statuses == {200, 204, 299, 300, 404, 500}
ResponseBodies == {"{\"answer\":\"x\"}", "{}", "[1]", "<html>", ""}

\* response.json(): the parsed value, or a SyntaxError
JSONParse(text) ==
    CASE text = "{\"answer\":\"x\"}" -> [ok |-> TRUE, val |-> "object: answer is x"]
      [] text = "{}" -> [ok |-> TRUE, val |-> "object: empty"]
      [] text = "[1]" -> [ok |-> TRUE, val |-> "array: 1"]
      [] OTHER -> [ok |-> FALSE, val |-> ""]

\* a status check that accepts 200 alone
ResponseOkOnly200(status) == status = 200

\* response.ok
ResponseOk(status) == status >= 200 /\ status <= 299

\* the state of a call: where it is, what it sent and what came back
Call(pc, q, base, status, body, errorName, errorStatus, data) ==
    [pc |-> pc, question |-> q, base |-> base, status |-> status, body |-> body,
     errorName |-> errorName, errorStatus |-> errorStatus, data |-> data]

Idle == Call("idle", <<>>, 0, 0, "", "", 0, "")

\* askQuestionAPI(question), up to its first await
AskQuestionAPI(q) ==
    /\ nav # "done"
    /\ api.pc \in {"idle", "resolved", "rejected"}
    /\ Len(requests) < MaxRequests
    /\ requests' = Append(requests, [url |-> "/api/ask", method |-> "POST",
                                     contentType |-> "application/json",
                                     body |-> JSONStringify(q)])
    /\ api' = Call("fetching", q, Len(requests), 0, "", "", 0, "")
    /\ last' = Event("ask", q, FALSE, FALSE)
    /\ UNCHANGED <<domVars, alertVars, copyVars, now, clicks, errors, nav>>

\* fetch rejects: no response (the network failed); the catch block rethrows
FetchFails ==
    /\ nav # "done"
    /\ api.pc = "fetching"
    /\ api' = Call("rejected", api.question, api.base, 0, "", "TypeError", 0, "")
    /\ last' = Event("fetchFails", "", TRUE, FALSE)
    /\ UNCHANGED <<domVars, alertVars, copyVars, requests, now, clicks, errors, nav>>

\* fetch resolves with a response of this status and body
FetchResponds(status, body) ==
    /\ nav # "done"
    /\ api.pc = "fetching"
    /\ api' = IF ~ResponseOk(status)
              THEN \* throw new Error(`HTTP error! status: ${response.status}`)
                   Call("rejected", api.question, api.base, status, body,
                        "Error", status, "")
              ELSE Call("parsing", api.question, api.base, status, body, "", 0, "")
    /\ last' = Event("fetchResponds", status, ~ResponseOk(status), FALSE)
    /\ UNCHANGED <<domVars, alertVars, copyVars, requests, now, clicks, errors, nav>>

\* response.json() settles
JsonSettles ==
    /\ nav # "done"
    /\ api.pc = "parsing"
    /\ LET parsed == JSONParse(api.body)
       IN  /\ api' = IF parsed.ok
                     THEN Call("resolved", api.question, api.base, api.status,
                               api.body, "", 0, parsed.val)
                     ELSE Call("rejected", api.question, api.base, api.status,
                               api.body, "SyntaxError", 0, "")
           /\ last' = Event("jsonSettles", "", ~parsed.ok, FALSE)
    /\ UNCHANGED <<domVars, alertVars, copyVars, requests, now, clicks, errors, nav>>

(***************************************************************************)
(* Initial states and specifications.                                      *)
(***************************************************************************)
InitWith(pages) ==
    /\ present \in pages
    /\ loaded = FALSE
    /\ listeners = {}
    /\ value = <<>>
    /\ styleHeight = Auto
    /\ focused = FALSE
    /\ inView = FALSE
    /\ btnDisabled = FALSE
    /\ btnLabel = LabelAsk
    /\ spinnerDisplay = "none"
    /\ alerts = <<>>
    /\ container = <<>>
    /\ timers = {}
    /\ now = 0
    /\ clicks = 0
    /\ errors = 0
    /\ nav = "none"
    /\ bodyInputs = {}
    /\ clipboard = <<>>
    /\ api = Idle
    /\ requests = <<>>
    /\ last = Event("init", "", FALSE, FALSE)

Pages == [Elements -> BOOLEAN]

\* the pages that have every element outside `optional`
PagesVarying(optional) == {p \in Pages : \A e \in Elements \ optional : p[e]}

\* the pages that lack every element outside `optional`
PagesAmong(optional) == {p \in Pages : \A e \in Elements \ optional : ~p[e]}

ShortTexts == {<<>>, <<"a">>}

(***************************************************************************)
(* Spec: every handler of the page on every subset of the elements the     *)
(* wiring and its handlers look up, with short texts.                      *)
(***************************************************************************)
Init == InitWith(PagesAmong(Elements \ {"answer"}))

Next ==
    \/ DOMContentLoaded
    \/ \E v \in ShortTexts : TypeInput(v)
    \/ RemoveQuestion
    \/ SubmitForm
    \/ Navigate
    \/ \E q \in ShortTexts : ClickExample(q)
    \/ \E t \in timers : FocusTimerFire(t)
    \/ \E t \in timers : AlertTimerFire(t)
    \/ Tick

Spec == Init /\ [][Next]_vars

(***************************************************************************)
(* SpecSubmit: typing, form submission and dismissals, on a page with a    *)
(* form and any subset of the textarea, the submit button, the spinner and *)
(* the container, in the five seconds before the first banner times out.   *)
(***************************************************************************)
InitSubmit ==
    InitWith({p \in PagesAmong({"questionForm", "question", "submitBtn",
                                "loadingSpinner", "container"}) :
                 p["questionForm"]})

NextSubmit ==
    \/ DOMContentLoaded
    \/ \E v \in Strings : TypeInput(v)
    \/ SubmitForm
    \/ Navigate
    \/ \E id \in 1..Len(alerts) : DismissAlert(id)

SpecSubmit == InitSubmit /\ [][NextSubmit]_vars

(***************************************************************************)
(* SpecExamples: the example-question buttons and their focus timers, on   *)
(* a page whose textarea may be missing or be removed.                     *)
(***************************************************************************)
InitExamples ==
    InitWith({p \in PagesAmong({"question", "exampleButtons", "container"}) :
                 p["exampleButtons"]})

NextExamples ==
    \/ DOMContentLoaded
    \/ \E q \in Strings : ClickExample(q)
    \/ \E t \in timers : FocusTimerFire(t)
    \/ RemoveQuestion
    \/ \E t \in timers : AlertTimerFire(t)
    \/ Tick

SpecExamples == InitExamples /\ [][NextExamples]_vars

(***************************************************************************)
(* SpecAlerts: calls of showAlert, manual dismissals and the timers, on a  *)
(* page with or without the container.                                     *)
(***************************************************************************)
AlertMessages == {"Copied!"}
AlertTypes == {"success", "info"}

InitAlerts == InitWith(PagesAmong({"container"}))

NextAlerts ==
    \/ DOMContentLoaded
    \/ \E m \in AlertMessages, ty \in AlertTypes : ShowAlertCall(m, ty)
    \/ \E id \in 1..Len(alerts) : DismissAlert(id)
    \/ \E t \in timers : AlertTimerFire(t)
    \/ Tick

SpecAlerts == InitAlerts /\ [][NextAlerts]_vars

\* The event loop runs every callback whose timer is due, and time passes.
FairAlerts ==
    /\ WF_vars(Tick)
    /\ \A id \in 1..MaxAlerts : WF_vars(\E t \in timers : t.id = id /\ AlertTimerFire(t))

FairSpecAlerts == SpecAlerts /\ FairAlerts

(***************************************************************************)
(* SpecCopy: copyAnswer on a page with or without the answer node and the  *)
(* container.                                                              *)
(***************************************************************************)
InitCopy == InitWith(PagesAmong({"answer", "container"}))

NextCopy ==
    \/ DOMContentLoaded
    \/ \E o \in CopyOutcomes : CopyAnswer(o)
    \/ \E id \in 1..Len(alerts) : DismissAlert(id)
    \/ \E t \in timers : AlertTimerFire(t)
    \/ Tick

SpecCopy == InitCopy /\ [][NextCopy]_vars

(***************************************************************************)
(* SpecApi: calls of askQuestionAPI against a server that answers with     *)
(* any status and body, or not at all.                                     *)
(***************************************************************************)
InitApi == InitWith(PagesVarying({}))

NextApi ==
    \/ \E q \in Strings : AskQuestionAPI(q)
    \/ FetchFails
    \/ \E st \in Statuses, b \in ResponseBodies : FetchResponds(st, b)
    \/ JsonSettles

SpecApi == InitApi /\ [][NextApi]_vars

(***************************************************************************)
(* Properties.                                                             *)
(***************************************************************************)
AllWhitespace(s) == \A i \in 1..Len(s) : s[i] \in Whitespace

NewAlert == Len(alerts) + 1

\* this step is a submit event on a page with the textarea, its text blank
BlankSubmit == last'.op = "submit" /\ present["question"] /\ AllWhitespace(value)

\* this step is a submit event on a page with the textarea, its text not blank
TextSubmit == last'.op = "submit" /\ present["question"] /\ ~AllWhitespace(value)

ButtonUntouched ==
    /\ btnDisabled' = btnDisabled
    /\ btnLabel' = btnLabel
    /\ spinnerDisplay' = spinnerDisplay

\* this step built one alertDiv, of this severity, and no other
BuiltOne(type) ==
    /\ Len(alerts') = Len(alerts) + 1
    /\ SubSeq(alerts', 1, Len(alerts)) = alerts
    /\ alerts'[NewAlert].type = type

\* C1, as claimed: a submit event with a blank or whitespace-only question
\* cancels the default submission, no navigation starts, exactly one banner
\* of severity 'warning' is inserted, and the submit button is left alone.
C1_BlankSubmitOneBanner ==
    [][BlankSubmit =>
          /\ last'.prevented
          /\ nav' = "none"
          /\ BuiltOne("warning")
          /\ container' = <<NewAlert>> \o container
          /\ ButtonUntouched]_vars

\* C1, amended: a submit event with a blank or whitespace-only question
\* cancels the default submission, no navigation starts, showAlert is called
\* exactly once, with severity 'warning', and the submit button is left
\* alone; the banner is inserted (one, as first child) when the page has the
\* .container element, and no banner is inserted when it has none.
C1_BlankSubmitWarns ==
    [][BlankSubmit =>
          /\ last'.prevented
          /\ nav' = "none"
          /\ BuiltOne("warning")
          /\ container' = IF present["container"]
                          THEN <<NewAlert>> \o container ELSE container
          /\ ButtonUntouched]_vars

C1_Witness ==
    /\ last.op = "submit"
    /\ last.prevented
    /\ value # <<>>
    /\ AllWhitespace(value)
    /\ container # <<>>
    /\ alerts[Head(container)].type = "warning"
    /\ ~btnDisabled

\* C2: a submit event with a non-blank question does not cancel the default
\* submission and shows no alert, and from the handler's return until the
\* browser navigates the submit button is disabled and labelled
\* 'Processing...' and the spinner, when present, is shown.
C2_TextSubmitProcessing ==
    /\ [][TextSubmit =>
             /\ ~last'.prevented
             /\ nav' = "pending"
             /\ alerts' = alerts
             /\ container' = container
             /\ present["submitBtn"] => btnDisabled' /\ btnLabel' = LabelProcessing
             /\ present["loadingSpinner"] => spinnerDisplay' = "block"]_vars
    /\ [](nav = "pending" /\ present["question"] =>
             /\ present["submitBtn"] => btnDisabled /\ btnLabel = LabelProcessing
             /\ present["loadingSpinner"] => spinnerDisplay = "block")

C2_Witness ==
    /\ nav = "pending"
    /\ last.op = "submit"
    /\ ~last.prevented
    /\ Trim(value) # value
    /\ btnDisabled
    /\ btnLabel = LabelProcessing
    /\ spinnerDisplay = "block"
    /\ alerts = <<>>

\* this step is an input event on a textarea with the resize listener
Resized == last'.op = "input" /\ "input" \in listeners

\* C6: every input event leaves the textarea's height at
\* min(scrollHeight, 200), so never above 200, and an input event that
\* follows another with the content unchanged leaves the height unchanged.
C6_HeightCapped ==
    [][Resized =>
          /\ styleHeight' = Min(ScrollHeight(Auto, value'), MaxHeight)
          /\ styleHeight' = Min(ScrollHeight(styleHeight', value'), MaxHeight)
          /\ styleHeight' # Auto
          /\ styleHeight' <= MaxHeight
          /\ (last.op = "input" /\ value' = value) => styleHeight' = styleHeight]_vars

C6_Witness ==
    /\ last.op = "input"
    /\ "input" \in listeners
    /\ ContentHeight(value) > MaxHeight
    /\ styleHeight = MaxHeight

\* C5: a click on an example-question button whose data-question is q leaves
\* the textarea's value equal to q and the textarea scrolled into view, does
\* not move the focus, and starts a timer; the focus is given by that timer's
\* callback, no sooner than 500 ms after the click.
C5_ClickCopiesThenFocuses ==
    [][/\ (last'.op = "click" /\ present["question"]) =>
             /\ value' = last'.arg
             /\ inView'
             /\ focused' = focused
             /\ \E t \in timers' \ timers :
                   t.kind = "focus" /\ t.at = now /\ t.due = now + FocusDelay
       /\ (last'.op = "focusTimer" /\ ~last'.threw) =>
             /\ focused'
             /\ last'.arg \in timers
             /\ now >= last'.arg.at + FocusDelay
       /\ (focused' /\ ~focused) => last'.op = "focusTimer"]_vars

C5_Witness ==
    /\ last.op = "focusTimer"
    /\ ~last.threw
    /\ focused
    /\ inView
    /\ Len(value) = 2
    /\ Trim(value) # value
    /\ now >= FocusDelay

\* C9, as claimed: the callback of the 500 ms focus timer, run after the
\* textarea has left the document, does nothing: no error is raised, the
\* global error listener does not run, and no alert is built or inserted.
C9_LateFocusIsNoOp ==
    [][(last'.op = "focusTimer" /\ ~present["question"]) =>
          /\ ~last'.threw
          /\ errors' = errors
          /\ alerts' = alerts
          /\ container' = container]_vars

\* C8, as claimed: on every subset of the elements, initialization and every
\* handler skip what is missing: no handler throws, so the global error
\* listener never runs and never builds its 'danger' alert.
C8_NoHandlerThrows ==
    /\ errors = 0
    /\ ~last.threw
    /\ \A i \in 1..Len(alerts) : alerts[i].type # "danger"

\* C7, as claimed: copyAnswer with the answer node shows one alert, 'success'
\* when the copy command succeeded and 'warning' when it failed, and has
\* removed its transient input when it returns; without the answer node it
\* creates nothing and shows no alert.
C7_CopyReportsOutcome ==
    [][last'.op = "copy" =>
          IF present["answer"]
          THEN /\ BuiltOne(IF last'.arg = "copied" THEN "success" ELSE "warning")
               /\ bodyInputs' = bodyInputs
          ELSE /\ alerts' = alerts
               /\ container' = container
               /\ bodyInputs' = bodyInputs]_vars

\* C4: a call of askQuestionAPI sends exactly one request, a POST whose body
\* is the JSON of {question}; a response whose status is not 2xx rejects the
\* call with an error that carries the status, and a 2xx response with a
\* JSON body resolves the call to the parsed body.
C4_OneRequestSettledByStatus ==
    LET answered == api.pc \in {"parsing", "resolved", "rejected"} /\ api.status # 0
        settled == api.pc \in {"resolved", "rejected"}
        is2xx == api.status \in 200..299
        isJson == api.body \in {"{\"answer\":\"x\"}", "{}", "[1]"}
    IN  /\ api.pc # "idle" =>
             /\ Len(requests) = api.base + 1
             /\ requests[Len(requests)].method = "POST"
             /\ requests[Len(requests)].url = "/api/ask"
             /\ ParseRequestBody(requests[Len(requests)].body) = api.question
        /\ (answered /\ ~is2xx) =>
             /\ api.pc = "rejected"
             /\ api.errorName = "Error"
             /\ api.errorStatus = api.status
        /\ (answered /\ settled /\ is2xx /\ isJson) =>
             /\ api.pc = "resolved"
             /\ api.data = JSONParse(api.body).val
             /\ api.data # ""
        /\ (api.body = "{\"answer\":\"x\"}" /\ api.pc = "resolved") =>
             api.data = "object: answer is x"

C4_Witness ==
    /\ api.pc = "rejected"
    /\ api.status = 500
    /\ api.errorStatus = 500
    /\ api.errorName = "Error"
    /\ Len(requests) = 1
    /\ "\n" \in {api.question[i] : i \in 1..Len(api.question)}

\* the 5000 ms timer of banner id has not fired yet
TimerPending(id) == \E t \in timers : t.kind = "alert" /\ t.id = id

\* C3, as claimed: each call of showAlert inserts exactly one banner, as the
\* first child of the container.
C3_EveryCallInserts ==
    [][last'.op = "showAlert" =>
          /\ BuiltOne(last'.arg)
          /\ container' = <<NewAlert>> \o container]_vars

\* C3, amended: on a page that has the .container element each call of
\* showAlert inserts exactly one banner, as the first child of the container,
\* and starts its 5000 ms timer; the timer fires no sooner than 5000 ms after
\* the call, a banner is attached only while its timer has not fired, and
\* every banner is eventually detached, dismissed by hand or not.  On a page
\* without the .container element a call of showAlert inserts no banner and
\* starts no timer.
C3_InsertedThenRemoved ==
    /\ [][last'.op = "showAlert" =>
             /\ BuiltOne(last'.arg)
             /\ IF present["container"]
                THEN /\ container' = <<NewAlert>> \o container
                     /\ timers' = timers \cup
                           {[kind |-> "alert", id |-> NewAlert, at |-> now,
                             due |-> now + AlertDelay]}
                ELSE /\ container' = container
                     /\ timers' = timers]_vars
    /\ [][last'.op = "alertTimer" =>
             /\ now >= last'.arg.at + AlertDelay
             /\ ~IsAttached(container', last'.arg.id)]_vars
    /\ [](\A id \in 1..Len(alerts) : IsAttached(container, id) => TimerPending(id))
    /\ \A id \in 1..MaxAlerts :
          IsAttached(container, id) ~> ~IsAttached(container, id)

C3_Witness ==
    /\ last.op = "alertTimer"
    /\ Len(alerts) >= 2
    /\ \E id \in 1..Len(alerts) : ~IsAttached(container, id) /\ TimerPending(id)
    /\ ~IsAttached(container, last.arg.id)
    /\ now >= AlertDelay

\* C10: on a page with the container, showAlert neither queues nor
\* deduplicates: every call puts its banner before all the others, whatever
\* they show; the banners stay in the order most recent first; the callback
\* of a banner's timer takes that banner out, leaves the others as they are
\* and in their order, and changes nothing when the banner is already
\* detached; a dismissal takes out the dismissed banner only.
C10_BannersStackIndependently ==
    /\ [][(last'.op = "showAlert" /\ present["container"]) =>
             /\ Len(container') = Len(container) + 1
             /\ Head(container') = NewAlert
             /\ Tail(container') = container]_vars
    /\ [][last'.op = "alertTimer" =>
             /\ container' = SelectSeq(container, LAMBDA c : c # last'.arg.id)
             /\ ~IsAttached(container, last'.arg.id) => container' = container
             /\ timers' = timers \ {last'.arg}]_vars
    /\ [][last'.op = "dismiss" =>
             /\ container' = SelectSeq(container, LAMBDA c : c # last'.arg)
             /\ timers' = timers]_vars
    /\ [](\A i, j \in 1..Len(container) : i < j => container[i] > container[j])

C10_Witness ==
    /\ Len(container) = 2
    /\ Len(alerts) = 3
    /\ alerts[1] = alerts[2]
    /\ alerts[2] = alerts[3]
    /\ container = <<3, 1>>
    /\ last.op = "alertTimer"
    /\ last.arg.id = 2

=============================================================================
